---- MODULE Spec2Model ----
(***************************************************************************)
(* A state-machine model of openusd_mcp.tools: eight handlers that each    *)
(* open a USD document from a storage path, query or edit the composed     *)
(* stage, and return a dict.  The only state that outlives a call is the   *)
(* file system; the stage handle lives and dies inside the call.           *)
(*                                                                         *)
(*   fs      storage path -> file (absent, unparsable, USD document,       *)
(*           binary STL, text OBJ)                                         *)
(*   call    the arguments of the call that ran last                       *)
(*   result  what that call returned, or the exception it raised           *)
(*   procs   where each server process stands in the call it is serving,   *)
(*           with the stage that call opened; every process is idle        *)
(*           wherever calls are taken one at a time                        *)
(***************************************************************************)
EXTENDS Integers, Sequences, FiniteSets, TLC

VARIABLES fs, call, result, procs

vars == <<fs, call, result, procs>>

(***************************************************************************)
(* Python values                                                           *)
(***************************************************************************)

\* attr.Get() of an attribute with no value is None
None == [set |-> FALSE]

Some(v) == [set |-> TRUE, val |-> v]

\* `not x` for x None or an array: None and the empty array are falsy
Falsy(o) == ~o.set \/ Len(o.val) = 0

\* str(value): display formatting of a value
Str(v) == <<"str", v>>

InSeq(x, s) == \E i \in 1..Len(s) : s[i] = x

RECURSIVE SumSeq(_)
SumSeq(s) == IF Len(s) = 0 THEN 0 ELSE s[1] + SumSeq(Tail(s))

RECURSIVE Flatten(_)
Flatten(ss) == IF Len(ss) = 0 THEN <<>> ELSE ss[1] \o Flatten(Tail(ss))

Min(S) == CHOOSE m \in S : \A n \in S : m <= n

Max(S) == CHOOSE m \in S : \A n \in S : m >= n

(***************************************************************************)
(* What a handler hands back                                               *)
(***************************************************************************)

\* an exception leaving the handler
Raise(exc) == [kind |-> "raise", exc |-> exc]

\* return {"error": msg}
Error(msg) == [kind |-> "error", error |-> msg]

\* return {...} without an "error" key
Ok(payload) == [kind |-> "ok", payload |-> payload]

\* the outcome of one call: the value handed back and the file system left
Outcome(res, files) == [res |-> res, files |-> files]

(***************************************************************************)
(* Files                                                                   *)
(***************************************************************************)

NoFile == [kind |-> "none"]

Junk == [kind |-> "junk"]

UsdFile(doc) == [kind |-> "usd", doc |-> doc]

(***************************************************************************)
(* Prims and stages.  A document holds its prims in authored depth-first   *)
(* order; parent "/" is the pseudo-root.  `active` stands for the default  *)
(* traversal predicate (active, defined, loaded, not abstract): a prim     *)
(* that fails it is skipped by GetChildren() and Traverse(), and its       *)
(* descendants are not populated on the stage.  tx is the authored         *)
(* translation along x, the only transform op the documents use.           *)
(***************************************************************************)

Prim(path, parent, type) ==
    [path |-> path, parent |-> parent, type |-> type, active |-> TRUE,
     tx |-> 0, vsets |-> <<>>, points |-> None, counts |-> None,
     indices |-> None, binding |-> "", surface |-> <<>>, inputs |-> <<>>]

VariantSet(name, options, selected) ==
    [name |-> name, options |-> options, selected |-> selected]

\* an authored shader input "inputs:<base>"
ShaderInput(name, base, value) == [name |-> name, base |-> base, value |-> value]

\* meters_per_unit is kept in thousandths of a metre: 10 is 0.01 m (centimetres)
Document(prims) == [prims |-> prims, up_axis |-> "Y", meters_per_unit |-> 10]

\* Usd.Stage.Open after the os.path.exists test
_open_stage(files, path) ==
    IF files[path].kind = "none"
    THEN [raised |-> TRUE, exc |-> "FileNotFoundError"]
    ELSE IF files[path].kind # "usd"
    THEN [raised |-> TRUE, exc |-> "ValueError"]
    ELSE [raised |-> FALSE, stage |-> files[path].doc]

HasRecord(stage, p) == \E i \in 1..Len(stage.prims) : stage.prims[i].path = p

Record(stage, p) ==
    stage.prims[CHOOSE i \in 1..Len(stage.prims) : stage.prims[i].path = p]

\* every prim from p up to the pseudo-root passes the traversal predicate
RECURSIVE ChainActive(_, _)
ChainActive(stage, p) ==
    \/ p = "/"
    \/ /\ HasRecord(stage, p)
       /\ Record(stage, p).active
       /\ ChainActive(stage, Record(stage, p).parent)

\* stage.GetPrimAtPath(p).IsValid(): the prim is populated on the stage
IsValid(stage, p) ==
    HasRecord(stage, p) /\ ChainActive(stage, Record(stage, p).parent)

\* stage.GetPrimAtPath(p), for a valid p
GetPrimAtPath(stage, p) == Record(stage, p)

\* prim.GetChildren(): the children that pass the predicate, authored order
GetChildren(stage, p) ==
    SelectSeq(stage.prims, LAMBDA c : c.parent = p /\ c.active)

\* a traversal that skips a prim that fails the predicate but not the
\* prims below it
Traverse_unpruned(stage) == SelectSeq(stage.prims, LAMBDA c : c.active)

\* stage.Traverse(): depth-first over the prims that pass the predicate,
\* pruning below a prim that fails it; the pseudo-root is not visited
Traverse(stage) ==
    SelectSeq(stage.prims, LAMBDA c : ChainActive(stage, c.path))

\* prim.IsA(UsdGeom.Xformable)
IsXformable(prim) == prim.type \in {"Xform", "Mesh"}

\* prim.IsA(UsdGeom.Gprim)
IsGprim(prim) == prim.type = "Mesh"

\* prim.IsA(UsdGeom.Mesh)
IsMesh(prim) == prim.type = "Mesh"

\* prim.IsA(UsdShade.Material)
IsMaterial(prim) == prim.type = "Material"

(***************************************************************************)
(* Hierarchy walker                                                        *)
(***************************************************************************)

\* the optional "faces" key of _walk: only for a Mesh whose counts are truthy
WalkFaces(prim) ==
    IF prim.type = "Mesh" /\ ~Falsy(prim.counts)
    THEN "faces" :> Len(prim.counts.val)
    ELSE <<>>

\* the optional "children" key of _walk: only when there are children
WalkChildren(children) ==
    IF Len(children) > 0 THEN "children" :> children ELSE <<>>

RECURSIVE _walk(_, _)
_walk(stage, prim) ==
    LET kids == GetChildren(stage, prim.path)
        children == [i \in 1..Len(kids) |-> _walk(stage, kids[i])]
    IN  [path |-> Str(prim.path), type |-> prim.type]
            @@ WalkFaces(prim) @@ WalkChildren(children)

inspect_scene(files, path) ==
    LET o == _open_stage(files, path) IN
    IF o.raised THEN Outcome(Raise(o.exc), files)
    ELSE LET top == GetChildren(o.stage, "/") IN
         Outcome(Ok([scene |-> [i \in 1..Len(top) |-> _walk(o.stage, top[i])],
                     up_axis |-> Str(o.stage.up_axis),
                     meters_per_unit |-> o.stage.meters_per_unit]),
                 files)

(***************************************************************************)
(* Attribute and material resolver                                         *)
(***************************************************************************)

\* prim.GetAttributes() with each attr.Get(): the attributes the documents
\* author, in order, as <<name, value-or-None>>
Attributes(prim) ==
    (IF prim.type = "Mesh"
     THEN << <<"points", prim.points>>,
             <<"faceVertexCounts", prim.counts>>,
             <<"faceVertexIndices", prim.indices>> >>
     ELSE <<>>)
    \o (IF prim.tx # 0 THEN << <<"xformOp:translate", Some(prim.tx)>> >> ELSE <<>>)
    \o [i \in 1..Len(prim.inputs) |->
            <<prim.inputs[i].name, prim.inputs[i].value>>]

\* {name: str(val)} over the attributes whose value is not None
SetAttributes(attrs) ==
    LET kept == SelectSeq(attrs, LAMBDA a : a[2].set)
    IN  [i \in 1..Len(kept) |-> <<kept[i][1], Str(kept[i][2].val)>>]

\* MaterialBindingAPI(prim).ComputeBoundMaterial(): the prim's own binding,
\* else the nearest ancestor's; "" when nothing is bound
RECURSIVE ComputeBoundMaterial(_, _)
ComputeBoundMaterial(stage, p) ==
    IF p = "/" \/ ~HasRecord(stage, p) THEN ""
    ELSE IF Record(stage, p).binding # "" THEN Record(stage, p).binding
    ELSE ComputeBoundMaterial(stage, Record(stage, p).parent)

\* the optional "material" key of get_prim
PrimMaterial(stage, prim) ==
    IF IsGprim(prim) /\ ComputeBoundMaterial(stage, prim.path) # ""
    THEN "material" :> Str(ComputeBoundMaterial(stage, prim.path))
    ELSE <<>>

get_prim(files, path, prim_path) ==
    LET o == _open_stage(files, path) IN
    IF o.raised THEN Outcome(Raise(o.exc), files)
    ELSE IF ~IsValid(o.stage, prim_path)
    THEN Outcome(Error(<<"Prim not found: ", prim_path>>), files)
    ELSE LET prim == GetPrimAtPath(o.stage, prim_path) IN
         Outcome(Ok([path |-> prim_path, type |-> prim.type,
                     attributes |-> SetAttributes(Attributes(prim))]
                        @@ PrimMaterial(o.stage, prim)),
                 files)

\* the loop over surface.GetConnectedSources(): each source overwrites the
\* "shader" and "params" keys; with no source neither key is set
RECURSIVE ShaderInfo(_, _, _)
ShaderInfo(stage, info, sources) ==
    IF Len(sources) = 0 THEN info
    ELSE LET shader_prim == GetPrimAtPath(stage, sources[1])
             inputs == [i \in 1..Len(shader_prim.inputs) |->
                           <<shader_prim.inputs[i].base, shader_prim.inputs[i].value>>]
         IN  ShaderInfo(stage,
                        [path |-> info.path,
                         shader |-> Str(shader_prim.path),
                         params |-> SetAttributes(inputs)],
                        Tail(sources))

get_materials(files, path) ==
    LET o == _open_stage(files, path) IN
    IF o.raised THEN Outcome(Raise(o.exc), files)
    ELSE LET mats == SelectSeq(Traverse(o.stage), IsMaterial) IN
         Outcome(Ok([materials |->
                        [i \in 1..Len(mats) |->
                            ShaderInfo(o.stage, [path |-> Str(mats[i].path)],
                                       mats[i].surface)]]),
                 files)

(***************************************************************************)
(* Transform resolver                                                      *)
(***************************************************************************)

\* xform.GetLocalTransformation(time): the prim's own translation
GetLocalTransformation(prim) == prim.tx

\* xform.ComputeLocalToWorldTransform(time): the translations composed from
\* the prim up to the pseudo-root
RECURSIVE ComputeLocalToWorldTransform(_, _)
ComputeLocalToWorldTransform(stage, p) ==
    IF p = "/" \/ ~HasRecord(stage, p) THEN 0
    ELSE Record(stage, p).tx
            + ComputeLocalToWorldTransform(stage, Record(stage, p).parent)

\* the prims get_transforms loops over: the one named prim, valid or not, or
\* every xformable prim of the traversal when prim_path is None or ""
TransformTargets(stage, prim_path) ==
    IF prim_path # ""
    THEN << prim_path >>
    ELSE LET xs == SelectSeq(Traverse(stage), IsXformable)
         IN  [i \in 1..Len(xs) |-> xs[i].path]

get_transforms(files, path, prim_path) ==
    LET o == _open_stage(files, path) IN
    IF o.raised THEN Outcome(Raise(o.exc), files)
    ELSE LET prims == TransformTargets(o.stage, prim_path)
             valid == SelectSeq(prims, LAMBDA p : IsValid(o.stage, p))
         IN  Outcome(Ok([transforms |->
                            [i \in 1..Len(valid) |->
                                [path |-> Str(valid[i]),
                                 local_transform |->
                                    Str(GetLocalTransformation(
                                            GetPrimAtPath(o.stage, valid[i]))),
                                 world_transform |->
                                    Str(ComputeLocalToWorldTransform(
                                            o.stage, valid[i]))]]]),
                     files)

(***************************************************************************)
(* Variant manager                                                         *)
(***************************************************************************)

\* vsets.HasVariantSet(name)
HasVariantSet(prim, name) ==
    \E i \in 1..Len(prim.vsets) : prim.vsets[i].name = name

\* vsets.GetVariantSet(name), for a set the prim has
GetVariantSet(prim, name) ==
    prim.vsets[CHOOSE i \in 1..Len(prim.vsets) : prim.vsets[i].name = name]

\* vset.SetVariantSelection(variant): the selection is authored on the
\* stage the call holds
SetVariantSelection(stage, prim_path, name, variant) ==
    [stage EXCEPT !.prims =
        [i \in 1..Len(stage.prims) |->
            IF stage.prims[i].path # prim_path THEN stage.prims[i]
            ELSE [stage.prims[i] EXCEPT !.vsets =
                    [j \in 1..Len(stage.prims[i].vsets) |->
                        IF stage.prims[i].vsets[j].name # name
                        THEN stage.prims[i].vsets[j]
                        ELSE [stage.prims[i].vsets[j] EXCEPT
                                !.selected = variant]]]]]

list_variants(files, path) ==
    LET o == _open_stage(files, path) IN
    IF o.raised THEN Outcome(Raise(o.exc), files)
    ELSE LET owners == SelectSeq(Traverse(o.stage), LAMBDA p : Len(p.vsets) > 0) IN
         Outcome(Ok([variants |->
                        [i \in 1..Len(owners) |->
                            [path |-> Str(owners[i].path),
                             variant_sets |->
                                [j \in 1..Len(owners[i].vsets) |->
                                    [name |-> owners[i].vsets[j].name,
                                     options |-> owners[i].vsets[j].options,
                                     selected |-> owners[i].vsets[j].selected]]]]]),
                 files)

\* stage.GetRootLayer().Save(): the stage written back to its file
Save(files, path, stage) == [files EXCEPT ![path] = UsdFile(stage)]

\* set_variant as it would be if the selection were authored and saved
\* before the variant is looked up among the options
set_variant_saves_early(files, path, prim_path, variant_set, variant) ==
    LET o == _open_stage(files, path) IN
    IF o.raised THEN Outcome(Raise(o.exc), files)
    ELSE IF ~IsValid(o.stage, prim_path)
    THEN Outcome(Error(<<"Prim not found: ", prim_path>>), files)
    ELSE LET prim == GetPrimAtPath(o.stage, prim_path) IN
         IF ~HasVariantSet(prim, variant_set)
         THEN Outcome(Error(<<"Variant set not found: ", variant_set>>), files)
         ELSE LET vset == GetVariantSet(prim, variant_set)
                  edited == SetVariantSelection(o.stage, prim_path,
                                                variant_set, variant)
                  saved == Save(files, path, edited)
              IN  IF ~InSeq(variant, vset.options)
                  THEN Outcome(Error(<<"Variant not found: ", variant,
                                       ". Available: ", vset.options>>), saved)
                  ELSE Outcome(Ok([path |-> prim_path,
                                   variant_set |-> variant_set,
                                   selected |-> variant,
                                   status |-> "ok"]), saved)

\* set_variant as it would be if a selection equal to the current one were
\* turned away
set_variant_rejects_same(files, path, prim_path, variant_set, variant) ==
    LET o == _open_stage(files, path) IN
    IF o.raised THEN Outcome(Raise(o.exc), files)
    ELSE IF ~IsValid(o.stage, prim_path)
    THEN Outcome(Error(<<"Prim not found: ", prim_path>>), files)
    ELSE LET prim == GetPrimAtPath(o.stage, prim_path) IN
         IF ~HasVariantSet(prim, variant_set)
         THEN Outcome(Error(<<"Variant set not found: ", variant_set>>), files)
         ELSE LET vset == GetVariantSet(prim, variant_set) IN
              IF ~InSeq(variant, vset.options)
              THEN Outcome(Error(<<"Variant not found: ", variant,
                                   ". Available: ", vset.options>>), files)
              ELSE IF vset.selected = variant
              THEN Outcome(Error(<<"Variant already selected: ", variant>>), files)
              ELSE Outcome(Ok([path |-> prim_path,
                               variant_set |-> variant_set,
                               selected |-> variant,
                               status |-> "ok"]), files)

\* The stage set_variant edits is local to the call.  Nothing between the
\* SetVariantSelection and the return saves the stage or its root layer, so
\* the edited stage is dropped with the handle and the file is as it was.
set_variant(files, path, prim_path, variant_set, variant) ==
    LET o == _open_stage(files, path) IN
    IF o.raised THEN Outcome(Raise(o.exc), files)
    ELSE IF ~IsValid(o.stage, prim_path)
    THEN Outcome(Error(<<"Prim not found: ", prim_path>>), files)
    ELSE LET prim == GetPrimAtPath(o.stage, prim_path) IN
         IF ~HasVariantSet(prim, variant_set)
         THEN Outcome(Error(<<"Variant set not found: ", variant_set>>), files)
         ELSE LET vset == GetVariantSet(prim, variant_set) IN
              IF ~InSeq(variant, vset.options)
              THEN Outcome(Error(<<"Variant not found: ", variant,
                                   ". Available: ", vset.options>>), files)
              ELSE LET edited == SetVariantSelection(o.stage, prim_path,
                                                     variant_set, variant)
                   IN  [res |-> Ok([path |-> prim_path,
                                    variant_set |-> variant_set,
                                    selected |-> variant,
                                    status |-> "ok"]),
                        files |-> files,
                        stage |-> edited]

(***************************************************************************)
(* Mesh triangulator and exporter                                          *)
(***************************************************************************)

\* arr[k] with Python's 0-based k
At(arr, k) == arr[k + 1]

\* the inner loop as a strip: each triangle starts one index further on
FaceTriangles_strip(indices, idx, count) ==
    [i \in 1..(count - 2) |->
        <<At(indices, idx + i - 1), At(indices, idx + i), At(indices, idx + i + 1)>>]

\* the inner loop stopping one short: for i in range(1, count - 2)
FaceTriangles_short(indices, idx, count) ==
    [i \in 1..(count - 3) |->
        <<At(indices, idx), At(indices, idx + i), At(indices, idx + i + 1)>>]

\* the inner loop for one face: for i in range(1, count - 1)
FaceTriangles(indices, idx, count) ==
    [i \in 1..(count - 2) |->
        <<At(indices, idx), At(indices, idx + i), At(indices, idx + i + 1)>>]

\* the inner loop reads indices idx .. idx + count - 1 when it runs at all;
\* reading past the end of the array raises IndexError
FaceRaises(indices, idx, count) == count >= 3 /\ idx + count > Len(indices)

\* the outer loop: for count in face_vertex_counts, idx += count
RECURSIVE Triangulate(_, _, _)
Triangulate(counts, indices, idx) ==
    IF Len(counts) = 0 THEN [raised |-> FALSE, triangles |-> <<>>]
    ELSE IF FaceRaises(indices, idx, counts[1])
    THEN [raised |-> TRUE, triangles |-> <<>>]
    ELSE LET rest == Triangulate(Tail(counts), indices, idx + counts[1])
         IN  [raised |-> rest.raised,
              triangles |-> FaceTriangles(indices, idx, counts[1]) \o rest.triangles]

\* f.write(b"\x00" * 80)
HeaderSize == 80

\* struct.pack("<I", ...)
CountSize == 4

\* struct.pack("<3f", ...): three 4-byte floats
Vec3Size == 12

\* struct.pack("<H", 0)
PadSize == 2

\* (p1 - p0) ^ (p2 - p0)
Cross(p0, p1, p2) ==
    LET a == <<p1[1] - p0[1], p1[2] - p0[2], p1[3] - p0[3]>>
        b == <<p2[1] - p0[1], p2[2] - p0[2], p2[3] - p0[3]>>
    IN  <<a[2] * b[3] - a[3] * b[2],
          a[3] * b[1] - a[1] * b[3],
          a[1] * b[2] - a[2] * b[1]>>

\* the five writes for one triangle; the normal is the cross product,
\* normalised when its length is positive.  Each part carries its byte length.
StlRecord(points, tri) ==
    LET p0 == At(points, tri[1])
        p1 == At(points, tri[2])
        p2 == At(points, tri[3])
        n  == Cross(p0, p1, p2)
    IN  << [bytes |-> Vec3Size, val |-> [dir |-> n, normalized |-> n # <<0, 0, 0>>]],
           [bytes |-> Vec3Size, val |-> p0],
           [bytes |-> Vec3Size, val |-> p1],
           [bytes |-> Vec3Size, val |-> p2],
           [bytes |-> PadSize, val |-> 0] >>

\* points[tri[k]] raises IndexError for an index past the end of points
TriRaises(points, tri) == \E k \in 1..3 : tri[k] >= Len(points)

\* the loop over the triangles inside `with open(output, "wb")`: the three
\* points are looked up before the triangle's first write, so a bad index
\* leaves the records of the triangles before it in the file
RECURSIVE WriteRecords(_, _)
WriteRecords(points, triangles) ==
    IF Len(triangles) = 0 THEN [raised |-> FALSE, records |-> <<>>]
    ELSE IF TriRaises(points, triangles[1])
    THEN [raised |-> TRUE, records |-> <<>>]
    ELSE LET rest == WriteRecords(points, Tail(triangles))
         IN  [raised |-> rest.raised,
              records |-> <<StlRecord(points, triangles[1])>> \o rest.records]

\* the count field is 4 bytes wide and holds any count below 2^32, which
\* every mesh here is far below
StlFile(count, records) ==
    [kind |-> "stl",
     header |-> [bytes |-> HeaderSize, val |-> 0],
     count |-> [bytes |-> CountSize, val |-> count],
     records |-> records]

\* the lines of the text layout: a comment, a "v" line per point, an "f" line
\* per triangle with the indices made 1-based
ObjFile(prim_path, points, triangles) ==
    [kind |-> "obj",
     comment |-> prim_path,
     v |-> points,
     f |-> [i \in 1..Len(triangles) |->
              <<triangles[i][1] + 1, triangles[i][2] + 1, triangles[i][3] + 1>>]]

\* the number of characters of str(n) for an integer n
RECURSIVE IntWidth(_)
IntWidth(n) ==
    IF n < 0 THEN 1 + IntWidth(0 - n)
    ELSE IF n < 10 THEN 1 ELSE 1 + IntWidth(n \div 10)

\* the number of characters of f"{x}" for an integer-valued float x: "2.0"
FloatWidth(n) == IntWidth(n) + 2

\* the bytes of one record: the sum of its parts
RecordSize(rec) == SumSeq([i \in 1..Len(rec) |-> rec[i].bytes])

\* os.path.getsize(output) of a written file
FileSize(file) ==
    IF file.kind = "stl"
    THEN file.header.bytes + file.count.bytes
            + SumSeq([i \in 1..Len(file.records) |-> RecordSize(file.records[i])])
    ELSE LET head == 16 + Len(file.comment)
             vs == [i \in 1..Len(file.v) |->
                      2 + FloatWidth(file.v[i][1]) + 1 + FloatWidth(file.v[i][2])
                        + 1 + FloatWidth(file.v[i][3])]
             fs_ == [i \in 1..Len(file.f) |->
                      2 + IntWidth(file.f[i][1]) + 1 + IntWidth(file.f[i][2])
                        + 1 + IntWidth(file.f[i][3])]
         IN  head + SumSeq(vs) + SumSeq(fs_) + Len(file.v) + Len(file.f)

\* the success payload of export_mesh
Exported(output, fmt, triangles, files) ==
    Ok([output |-> output, format |-> fmt, triangles |-> Len(triangles),
        size_bytes |-> FileSize(files[output]), status |-> "ok"])

\* export_mesh as it would be if the output were opened for writing before
\* the prim and its geometry are looked at
export_mesh_opens_first(files, path, prim_path, output, fmt) ==
    LET o == _open_stage(files, path)
        opened == [files EXCEPT ![output] = StlFile(0, <<>>)]
    IN
    IF o.raised THEN Outcome(Raise(o.exc), files)
    ELSE IF ~IsValid(o.stage, prim_path) \/ ~IsMesh(GetPrimAtPath(o.stage, prim_path))
    THEN Outcome(Error(<<"Not a valid mesh prim: ", prim_path>>), opened)
    ELSE LET mesh == GetPrimAtPath(o.stage, prim_path) IN
         IF Falsy(mesh.points) \/ Falsy(mesh.counts) \/ Falsy(mesh.indices)
         THEN Outcome(Error(<<"Mesh has no geometry data">>), opened)
         ELSE Outcome(Raise("IndexError"), opened)

export_mesh(files, path, prim_path, output, fmt) ==
    LET o == _open_stage(files, path) IN
    IF o.raised THEN Outcome(Raise(o.exc), files)
    ELSE IF ~IsValid(o.stage, prim_path) \/ ~IsMesh(GetPrimAtPath(o.stage, prim_path))
    THEN Outcome(Error(<<"Not a valid mesh prim: ", prim_path>>), files)
    ELSE LET mesh == GetPrimAtPath(o.stage, prim_path) IN
         IF Falsy(mesh.points) \/ Falsy(mesh.counts) \/ Falsy(mesh.indices)
         THEN Outcome(Error(<<"Mesh has no geometry data">>), files)
         ELSE LET t == Triangulate(mesh.counts.val, mesh.indices.val, 0) IN
              IF t.raised THEN Outcome(Raise("IndexError"), files)
              ELSE IF fmt = "obj"
              THEN LET written == [files EXCEPT ![output] =
                                      ObjFile(prim_path, mesh.points.val, t.triangles)]
                   IN  Outcome(Exported(output, fmt, t.triangles, written), written)
              ELSE LET w == WriteRecords(mesh.points.val, t.triangles)
                       written == [files EXCEPT ![output] =
                                      StlFile(Len(t.triangles), w.records)]
                   IN  IF w.raised THEN Outcome(Raise("IndexError"), written)
                       ELSE Outcome(Exported(output, fmt, t.triangles, written), written)

(***************************************************************************)
(* Scene aggregator                                                        *)
(***************************************************************************)

\* total_faces: len(fc) summed over the Mesh prims whose counts are truthy
TotalFaces(prims) ==
    LET meshes == SelectSeq(prims, LAMBDA p : p.type = "Mesh" /\ ~Falsy(p.counts))
    IN  SumSeq([i \in 1..Len(meshes) |-> Len(meshes[i].counts.val)])

\* the points of every traversed mesh, moved to world space
WorldPoints(stage) ==
    LET meshes == SelectSeq(Traverse(stage), LAMBDA p : IsMesh(p) /\ ~Falsy(p.points))
    IN  UNION { { <<meshes[i].points.val[k][1]
                        + ComputeLocalToWorldTransform(stage, meshes[i].path),
                    meshes[i].points.val[k][2],
                    meshes[i].points.val[k][3]>> :
                  k \in 1..Len(meshes[i].points.val) } :
                i \in 1..Len(meshes) }

\* 1000.0 * meters_per_unit
MmPerMetre == 1000

\* scale, with meters_per_unit in thousandths of a metre
Scale(meters_per_unit) == (MmPerMetre * meters_per_unit) \div 1000

\* bbox_max - bbox_min along axis k, times scale; round(.., 1) leaves the
\* integer-valued extents of the documents as they are.  With no geometry
\* the range is the empty range, reported as it computes.
BoundsMm(stage) ==
    LET pts == WorldPoints(stage)
        size(k) == Max({p[k] : p \in pts}) - Min({p[k] : p \in pts})
        scale == Scale(stage.meters_per_unit)
    IN  IF pts = {} THEN [empty |-> TRUE]
        ELSE [x |-> size(1) * scale, y |-> size(2) * scale, z |-> size(3) * scale]

scene_stats(files, path) ==
    LET o == _open_stage(files, path) IN
    IF o.raised THEN Outcome(Raise(o.exc), files)
    ELSE LET prims == Traverse(o.stage) IN
         Outcome(Ok([prim_count |-> Len(prims),
                     mesh_count |-> Len(SelectSeq(prims, LAMBDA p : p.type = "Mesh")),
                     material_count |->
                        Len(SelectSeq(prims, LAMBDA p : p.type = "Material")),
                     total_faces |-> TotalFaces(prims),
                     up_axis |-> Str(o.stage.up_axis),
                     meters_per_unit |-> o.stage.meters_per_unit,
                     bounds_mm |-> BoundsMm(o.stage)]),
                 files)

(***************************************************************************)
(* The documents and the arguments the calls are made with                 *)
(***************************************************************************)

\* how many of the size variants the product's "size" set offers
MaxOptions == 3

SizeNames == <<"small", "medium", "large", "xlarge">>

SizeOptions == SubSeq(SizeNames, 1, MaxOptions)

ColorOptions == <<"red", "blue">>

Geometry(points, counts, indices) ==
    [points |-> points, counts |-> counts, indices |-> indices]

\* the unit box of scripts/generate_examples.py: 8 points, 6 quads
BoxPoints ==
    << <<0, 0, 0>>, <<1, 0, 0>>, <<1, 1, 0>>, <<0, 1, 0>>,
       <<0, 0, 1>>, <<1, 0, 1>>, <<1, 1, 1>>, <<0, 1, 1>> >>

BoxGeometry ==
    Geometry(Some(BoxPoints), Some(<<4, 4, 4, 4, 4, 4>>),
             Some(<<0, 3, 2, 1,  4, 5, 6, 7,  0, 1, 5, 4,
                    2, 3, 7, 6,  0, 4, 7, 3,  1, 2, 6, 5>>))

\* a quad and a triangle over five points
QuadTriGeometry ==
    Geometry(Some(SubSeq(BoxPoints, 1, 5)), Some(<<4, 3>>),
             Some(<<0, 1, 2, 3, 0, 3, 4>>))

\* the geometries the product's body mesh is authored with: well-formed
\* ones, ones with an attribute unauthored or empty, one whose indices run
\* short of the counts, one whose last index is past the points
BodyGeometries ==
    { BoxGeometry,
      QuadTriGeometry,
      Geometry(None, Some(<<3>>), Some(<<0, 1, 2>>)),
      Geometry(Some(SubSeq(BoxPoints, 1, 3)), None, Some(<<0, 1, 2>>)),
      Geometry(Some(SubSeq(BoxPoints, 1, 3)), Some(<<3>>), Some(<<>>)),
      Geometry(Some(SubSeq(BoxPoints, 1, 4)), Some(<<4>>), Some(<<0, 1, 2>>)),
      Geometry(Some(SubSeq(BoxPoints, 1, 3)), Some(<<3, 3>>),
               Some(<<0, 1, 2, 0, 1, 5>>)) }

\* a product with two variant sets, a bound body mesh, a deactivated
\* subtree, a material with a shader and a material without one
ProductDocument(size, color, g) ==
    Document(<<
        [Prim("/Product", "/", "Xform") EXCEPT
            !.tx = 2,
            !.vsets = << VariantSet("size", SizeOptions, size),
                         VariantSet("color", ColorOptions, color) >>],
        [Prim("/Product/Body", "/Product", "Mesh") EXCEPT
            !.tx = 1, !.points = g.points, !.counts = g.counts,
            !.indices = g.indices, !.binding = "/Materials/Body"],
        [Prim("/Product/Hidden", "/Product", "Xform") EXCEPT !.active = FALSE],
        [Prim("/Product/Hidden/Part", "/Product/Hidden", "Mesh") EXCEPT
            !.points = QuadTriGeometry.points, !.counts = QuadTriGeometry.counts,
            !.indices = QuadTriGeometry.indices],
        Prim("/Materials", "/", "Scope"),
        [Prim("/Materials/Body", "/Materials", "Material") EXCEPT
            !.surface = << "/Materials/Body/Shader" >>],
        [Prim("/Materials/Body/Shader", "/Materials/Body", "Shader") EXCEPT
            !.inputs = << ShaderInput("inputs:diffuseColor", "diffuseColor",
                                      Some(<<1, 0, 0>>)),
                          ShaderInput("inputs:roughness", "roughness", None) >>],
        Prim("/Materials/Bare", "/Materials", "Material") >>)

\* the selections a document is authored with: none, or one of the options
Selections(options) == {""} \cup {options[i] : i \in 1..Len(options)}

\* the product with each authored size selection, and with each body geometry
ProductDocuments ==
    { ProductDocument(size, "red", QuadTriGeometry) : size \in Selections(SizeOptions) }
    \cup { ProductDocument("", "red", g) : g \in BodyGeometries }

Paths == {"scene.usda", "missing.usda", "broken.usda", "out.stl"}

DocPaths == {"scene.usda", "missing.usda", "broken.usda"}

Outputs == {"out.stl", "scene.usda"}

PrimPaths == {"/Product", "/Product/Body", "/Product/Hidden/Part", "/Nope"}

VariantSetNames == {"size", "color", "finish"}

VariantNames == {"large", "xlarge", "red"}

Formats == {"stl", "obj", "ply"}

(***************************************************************************)
(* The state machine: one action per handler, each the whole call          *)
(***************************************************************************)

Call(op, path, prim_path, variant_set, variant, output, fmt) ==
    [path |-> path, prim_path |-> prim_path,
     variant |-> variant, variant_set |-> variant_set,
     output |-> output, fmt |-> fmt, op |-> op]

NoCall == Call("none", "", "", "", "", "", "")

Files(doc) ==
    [p \in Paths |->
        IF p = "scene.usda" THEN UsdFile(doc)
        ELSE IF p = "broken.usda" THEN Junk
        ELSE NoFile]

\* the server processes started on the same storage: each is launched by
\* its own client and serves that client's calls
Procs == {"p1", "p2", "p3"}

\* a process between calls holds no stage
Idle == [pc |-> "idle"]

AllIdle == [p \in Procs |-> Idle]

Init ==
    /\ fs \in {Files(doc) : doc \in ProductDocuments}
    /\ call = NoCall
    /\ result = [kind |-> "none"]
    /\ procs = AllIdle

Step(c, out) ==
    /\ call' = c
    /\ result' = out.res
    /\ fs' = out.files
    /\ UNCHANGED procs

InspectScene(path) ==
    Step(Call("inspect_scene", path, "", "", "", "", ""), inspect_scene(fs, path))

GetPrim(path, prim_path) ==
    Step(Call("get_prim", path, prim_path, "", "", "", ""),
         get_prim(fs, path, prim_path))

GetMaterials(path) ==
    Step(Call("get_materials", path, "", "", "", "", ""), get_materials(fs, path))

GetTransforms(path, prim_path) ==
    Step(Call("get_transforms", path, prim_path, "", "", "", ""),
         get_transforms(fs, path, prim_path))

ListVariants(path) ==
    Step(Call("list_variants", path, "", "", "", "", ""), list_variants(fs, path))

SetVariant(path, prim_path, variant_set, variant) ==
    Step(Call("set_variant", path, prim_path, variant_set, variant, "", ""),
         set_variant(fs, path, prim_path, variant_set, variant))

ExportMesh(path, prim_path, output, fmt) ==
    Step(Call("export_mesh", path, prim_path, "", "", output, fmt),
         export_mesh(fs, path, prim_path, output, fmt))

SceneStats(path) ==
    Step(Call("scene_stats", path, "", "", "", "", ""), scene_stats(fs, path))

Next ==
    \/ \E path \in DocPaths : InspectScene(path)
    \/ \E path \in DocPaths, prim_path \in PrimPaths : GetPrim(path, prim_path)
    \/ \E path \in DocPaths : GetMaterials(path)
    \/ \E path \in DocPaths, prim_path \in PrimPaths \cup {""} :
            GetTransforms(path, prim_path)
    \/ \E path \in DocPaths : ListVariants(path)
    \/ \E path \in DocPaths, prim_path \in PrimPaths,
          variant_set \in VariantSetNames, variant \in VariantNames :
            SetVariant(path, prim_path, variant_set, variant)
    \/ \E path \in DocPaths, prim_path \in PrimPaths,
          output \in Outputs, fmt \in Formats :
            ExportMesh(path, prim_path, output, fmt)
    \/ \E path \in DocPaths : SceneStats(path)

Spec == Init /\ [][Next]_vars

(***************************************************************************)
(* Variant selection: claims C1, C3, C4                                    *)
(***************************************************************************)

\* the selections a file persists: for a document, every prim's sets with
\* what each has selected; nothing for a file that is no document
PersistedSelections(file) ==
    IF file.kind # "usd" THEN <<>>
    ELSE [i \in 1..Len(file.doc.prims) |->
            [j \in 1..Len(file.doc.prims[i].vsets) |->
                <<file.doc.prims[i].path,
                  file.doc.prims[i].vsets[j].name,
                  file.doc.prims[i].vsets[j].selected>>]]

SelectionsUnchanged ==
    \A p \in Paths :
        /\ fs'[p].kind = fs[p].kind
        /\ PersistedSelections(fs'[p]) = PersistedSelections(fs[p])

\* a list_variants payload reports `selected` for the set of the prim
Reports(res, prim_path, variant_set, selected) ==
    /\ res.kind = "ok"
    /\ \E i \in 1..Len(res.payload.variants) :
        /\ res.payload.variants[i].path = Str(prim_path)
        /\ \E j \in 1..Len(res.payload.variants[i].variant_sets) :
            /\ res.payload.variants[i].variant_sets[j].name = variant_set
            /\ res.payload.variants[i].variant_sets[j].selected = selected

\* C1: a list_variants that follows a successful set_variant of variant v on
\* set s of prim n, on the same storage path, reports selected = v for s of n.
C1_ListAfterSelect ==
    [][ ( /\ call.op = "set_variant"
          /\ result.kind = "ok"
          /\ call'.op = "list_variants"
          /\ call'.path = call.path )
        => Reports(result', call.prim_path, call.variant_set, call.variant) ]_vars

\* C3: set_variant on a document answers a prim that is not there with "Prim
\* not found", else a set the prim lacks with "Variant set not found", else a
\* variant outside the options with "Variant not found" and the set's options;
\* an error answer leaves every persisted selection as it was.
C3_SelectValidation ==
    [][ ( call'.op = "set_variant" /\ fs[call'.path].kind = "usd" )
        => LET stage == fs[call'.path].doc
               sets == IF IsValid(stage, call'.prim_path) THEN Record(stage, call'.prim_path).vsets ELSE <<>>
               at == {j \in 1..Len(sets) : sets[j].name = call'.variant_set}
               options == IF at = {} THEN <<>> ELSE sets[CHOOSE j \in at : TRUE].options
           IN  /\ ~IsValid(stage, call'.prim_path)
                    => /\ result'.kind = "error"
                       /\ result'.error = <<"Prim not found: ", call'.prim_path>>
               /\ IsValid(stage, call'.prim_path) /\ at = {}
                    => /\ result'.kind = "error"
                       /\ result'.error = <<"Variant set not found: ", call'.variant_set>>
               /\ (at # {} /\ ~InSeq(call'.variant, options))
                    => /\ result'.kind = "error"
                       /\ result'.error = <<"Variant not found: ", call'.variant,
                                            ". Available: ", options>>
               /\ (at # {} /\ InSeq(call'.variant, options)) => result'.kind = "ok"
               /\ result'.kind = "error" => SelectionsUnchanged ]_vars

\* a set_variant was answered "Variant not found" with the options of the set
C3_Witness ==
    /\ call.op = "set_variant"
    /\ result.kind = "error"
    /\ result.error = <<"Variant not found: ", "xlarge", ". Available: ", SizeOptions>>

\* what the set of the prim has selected in the document at `path`
Selected(files, path, prim_path, variant_set) ==
    GetVariantSet(GetPrimAtPath(files[path].doc, prim_path), variant_set).selected

\* the call is a set_variant of a set the prim has, on a document
SelectsKnownSet(files, c) ==
    /\ c.op = "set_variant"
    /\ files[c.path].kind = "usd"
    /\ IsValid(files[c.path].doc, c.prim_path)
    /\ HasVariantSet(GetPrimAtPath(files[c.path].doc, c.prim_path), c.variant_set)

\* C4: a set_variant of the variant the set already has selected reports
\* success and leaves every persisted selection as it was; and a successful
\* set_variant made again with the same arguments returns the same result
\* and leaves the same files.
C4_SelectIdempotent ==
    [][ /\ ( /\ SelectsKnownSet(fs, call')
             /\ Selected(fs, call'.path, call'.prim_path, call'.variant_set)
                    = call'.variant )
            => /\ result'.kind = "ok"
               /\ result'.payload.selected = call'.variant
               /\ SelectionsUnchanged
        /\ ( call.op = "set_variant" /\ result.kind = "ok" /\ call' = call )
            => result' = result /\ fs' = fs ]_vars

\* a set_variant of "large" succeeded on a document that has "large" selected
C4_Witness ==
    /\ SelectsKnownSet(fs, call)
    /\ call.variant = "large"
    /\ Selected(fs, call.path, call.prim_path, call.variant_set) = "large"
    /\ result.kind = "ok"

(***************************************************************************)
(* Error reporting: claims C2, C8, C9                                      *)
(***************************************************************************)

\* C2: no call ends in an exception; each returns a success payload or an
\* error payload, whatever the storage path holds.
C2_NoUncaughtFailure == result.kind \in {"none", "ok", "error"}

\* C8: export_mesh on a document answers a prim path that is no populated
\* Mesh with "Not a valid mesh prim", and a Mesh with points, counts or
\* indices unauthored with "Mesh has no geometry data"; either way it
\* returns an error payload and leaves every file as it was.
C8_ExportRejects ==
    [][ ( call'.op = "export_mesh" /\ fs[call'.path].kind = "usd" )
        => LET stage == fs[call'.path].doc
               there == HasRecord(stage, call'.prim_path)
                          /\ ChainActive(stage, Record(stage, call'.prim_path).parent)
               mesh == there /\ Record(stage, call'.prim_path).type = "Mesh"
               absent == mesh /\ \/ ~Record(stage, call'.prim_path).points.set
                                 \/ ~Record(stage, call'.prim_path).counts.set
                                 \/ ~Record(stage, call'.prim_path).indices.set
           IN  /\ ~mesh => /\ result'.kind = "error"
                           /\ result'.error = <<"Not a valid mesh prim: ", call'.prim_path>>
                           /\ fs' = fs
               /\ absent => /\ result'.kind = "error"
                            /\ result'.error = <<"Mesh has no geometry data">>
                            /\ fs' = fs ]_vars

\* an export of a Mesh whose counts are unauthored was turned away
C8_Witness ==
    /\ call.op = "export_mesh"
    /\ fs[call.path].kind = "usd"
    /\ IsValid(fs[call.path].doc, call.prim_path)
    /\ IsMesh(GetPrimAtPath(fs[call.path].doc, call.prim_path))
    /\ ~GetPrimAtPath(fs[call.path].doc, call.prim_path).counts.set
    /\ result.kind = "error"
    /\ fs["out.stl"].kind = "none"

\* C9: get_transforms with an explicit prim path that resolves to no prim of
\* the document returns an error payload.
C9_TransformsPrimNotFound ==
    ( /\ call.op = "get_transforms"
      /\ call.prim_path # ""
      /\ fs[call.path].kind = "usd"
      /\ ~IsValid(fs[call.path].doc, call.prim_path) )
    => result.kind = "error"

(***************************************************************************)
(* Mesh export on its own: one Mesh prim with every geometry of a bounded  *)
(* family, exported in both layouts                                        *)
(***************************************************************************)

\* the most faces a mesh of the family has
MaxFaces == 2

\* the most face-vertex indices a mesh of the family has
MaxIndices == 6

\* a degenerate face, a triangle, a quad
CountValues == {1, 3, 4}

IndexValues == {0, 1, 2}

\* the non-empty sequences over S of length at most n
SeqsUpTo(S, n) == UNION {[1..k -> S] : k \in 1..n}

\* the lengths of the index arrays tried with the counts: up to MaxIndices,
\* one short of the counts' sum (the last face reads past the end), exactly
\* the sum, or one more than the sum (a trailing index no face reads)
IndexLengths(counts) ==
    { k \in 1..MaxIndices : k >= SumSeq(counts) - 1 /\ k <= SumSeq(counts) + 1 }

MeshDocument(g) ==
    Document(<< [Prim("/Mesh", "/", "Mesh") EXCEPT
                    !.points = g.points, !.counts = g.counts,
                    !.indices = g.indices] >>)

\* meshes over two or three points (so that index 2 is past the end of the
\* two-point ones), and the unit box
InitMesh ==
    /\ \/ \E counts \in SeqsUpTo(CountValues, MaxFaces), np \in {2, 3} :
            \E k \in IndexLengths(counts) :
                \E indices \in [1..k -> IndexValues] :
                    fs = Files(MeshDocument(
                            Geometry(Some(SubSeq(BoxPoints, 1, np)),
                                     Some(counts), Some(indices))))
       \/ fs = Files(MeshDocument(BoxGeometry))
    /\ call = NoCall
    /\ result = [kind |-> "none"]
    /\ procs = AllIdle

NextMesh ==
    \E fmt \in {"stl", "obj"} : ExportMesh("scene.usda", "/Mesh", "out.stl", fmt)

SpecMesh == InitMesh /\ [][NextMesh]_vars

(***************************************************************************)
(* Mesh export: claims C5, C6, C7                                          *)
(***************************************************************************)

\* the mesh the last export_mesh was asked to export
ExportedMesh == Record(fs[call.path].doc, call.prim_path)

\* the last call was an export_mesh that returned its success payload
ExportSucceeded ==
    /\ call.op = "export_mesh"
    /\ result.kind = "ok"
    /\ fs[call.path].kind = "usd"

\* where face i starts in the flat index array: the counts before it, summed
Offset(counts, i) == SumSeq(SubSeq(counts, 1, i - 1))

\* the fan of face i: (v0, v1, v2), (v0, v2, v3), ..., (v0, v(n-2), v(n-1))
Fan(counts, indices, i) ==
    [k \in 1..(counts[i] - 2) |->
        <<indices[Offset(counts, i) + 1],
          indices[Offset(counts, i) + k + 1],
          indices[Offset(counts, i) + k + 2]>>]

\* the fans of all faces, faces in authored order
Fans(counts, indices) ==
    Flatten([i \in 1..Len(counts) |-> Fan(counts, indices, i)])

\* the triangles a written file holds, as the file gives them: the text
\* layout as 1-based index triples, the binary layout as vertex triples
FileTriangles(file) ==
    IF file.kind = "obj"
    THEN [i \in 1..Len(file.f) |->
            <<file.f[i][1] - 1, file.f[i][2] - 1, file.f[i][3] - 1>>]
    ELSE [i \in 1..Len(file.records) |->
            <<file.records[i][2].val, file.records[i][3].val,
              file.records[i][4].val>>]

\* the triangles T as a file of that layout would give them
AsInFile(file, T, points) ==
    IF file.kind = "obj" THEN T
    ELSE [i \in 1..Len(T) |->
            <<points[T[i][1] + 1], points[T[i][2] + 1], points[T[i][3] + 1]>>]

\* C5: for a mesh whose counts are all at least 3 and sum to the number of
\* indices, the file export_mesh writes holds exactly the fan triangles of
\* each face, in order, faces in authored order.
C5_FanTriangulation ==
    ( /\ ExportSucceeded
      /\ \A i \in 1..Len(ExportedMesh.counts.val) : ExportedMesh.counts.val[i] >= 3
      /\ SumSeq(ExportedMesh.counts.val) = Len(ExportedMesh.indices.val) )
    => FileTriangles(fs[call.output])
         = AsInFile(fs[call.output],
                    Fans(ExportedMesh.counts.val, ExportedMesh.indices.val),
                    ExportedMesh.points.val)

\* a mesh of two faces, one of them a quad or both triangles, was exported
C5_Witness ==
    /\ ExportSucceeded
    /\ Len(ExportedMesh.counts.val) = 2
    /\ \A i \in 1..2 : ExportedMesh.counts.val[i] >= 3
    /\ SumSeq(ExportedMesh.counts.val) = Len(ExportedMesh.indices.val)
    /\ ExportedMesh.indices.val[1] # ExportedMesh.indices.val[4]

\* C6 as stated: the reported triangle count of a successful export is the
\* sum of count - 2 over the face counts.
C6_TriangleCount ==
    ExportSucceeded
    => result.payload.triangles
         = SumSeq([i \in 1..Len(ExportedMesh.counts.val) |->
                      ExportedMesh.counts.val[i] - 2])

\* C6 amended: the reported triangle count of a successful export is the sum
\* over the face counts of count - 2 where that is positive and 0 otherwise.
C6_TriangleCountClamped ==
    ExportSucceeded
    => result.payload.triangles
         = SumSeq([i \in 1..Len(ExportedMesh.counts.val) |->
                      IF ExportedMesh.counts.val[i] >= 2
                      THEN ExportedMesh.counts.val[i] - 2 ELSE 0])

\* the box of six quads was exported to the binary layout: 12 triangles in
\* 684 bytes
C6_Witness ==
    /\ ExportSucceeded
    /\ ExportedMesh.counts.val = <<4, 4, 4, 4, 4, 4>>
    /\ call.fmt = "stl"
    /\ result.payload.triangles = 12
    /\ result.payload.size_bytes = 684

\* C7: in a file written in the binary layout, the count field equals the
\* number of 50-byte records and the file is 84 + 50 * count bytes long.
C7_BinaryLayout ==
    \A p \in Paths :
        fs[p].kind = "stl"
        => /\ fs[p].count.val = Len(fs[p].records)
           /\ \A i \in 1..Len(fs[p].records) : RecordSize(fs[p].records[i]) = 50
           /\ FileSize(fs[p]) = 84 + 50 * fs[p].count.val

(***************************************************************************)
(* Hierarchy on its own: every tree of up to MaxPrims prims, each prim     *)
(* active or not, walked and counted                                       *)
(***************************************************************************)

\* the most prims a tree of the family has
MaxPrims == 4

PrimNames == <<"a", "b", "c", "d", "e", "f">>

\* a is i or an ancestor of i, under the parent function par (0 the root)
RECURSIVE AncestorOrSelf(_, _, _)
AncestorOrSelf(par, a, i) ==
    a = i \/ (i # 0 /\ AncestorOrSelf(par, a, par[i]))

\* the prims 1..n are in depth-first order: each prim's parent is the prim
\* before it or one of that prim's ancestors
DepthFirst(par, n) ==
    \A i \in 1..n : AncestorOrSelf(par, par[i], i - 1)

RECURSIVE PathOf(_, _)
PathOf(par, i) ==
    IF i = 0 THEN "" ELSE PathOf(par, par[i]) \o "/" \o PrimNames[i]

\* the last prim is a Mesh, the others are Xforms
TreeDocument(n, par, active) ==
    Document([i \in 1..n |->
        [Prim(PathOf(par, i),
              IF par[i] = 0 THEN "/" ELSE PathOf(par, par[i]),
              IF i = n THEN "Mesh" ELSE "Xform") EXCEPT
            !.active = active[i],
            !.points = IF i = n THEN QuadTriGeometry.points ELSE None,
            !.counts = IF i = n THEN QuadTriGeometry.counts ELSE None,
            !.indices = IF i = n THEN QuadTriGeometry.indices ELSE None]])

InitTree ==
    /\ \E n \in 0..MaxPrims :
        \E par \in [1..n -> 0..MaxPrims], active \in [1..n -> BOOLEAN] :
            /\ \A i \in 1..n : par[i] < i
            /\ DepthFirst(par, n)
            /\ fs = Files(TreeDocument(n, par, active))
    /\ call = NoCall
    /\ result = [kind |-> "none"]
    /\ procs = AllIdle

NextTree ==
    \/ InspectScene("scene.usda")
    \/ SceneStats("scene.usda")

SpecTree == InitTree /\ [][NextTree]_vars

(***************************************************************************)
(* Hierarchy: claim C10                                                    *)
(***************************************************************************)

\* the nodes of a nested "scene" structure, children and all
RECURSIVE NodeCount(_)
NodeCount(nodes) ==
    SumSeq([i \in 1..Len(nodes) |->
               1 + (IF "children" \in DOMAIN nodes[i]
                    THEN NodeCount(nodes[i].children) ELSE 0)])

\* a scene_stats follows an inspect_scene of the same document
StatsAfterInspect ==
    /\ call.op = "inspect_scene"
    /\ result.kind = "ok"
    /\ call'.op = "scene_stats"
    /\ call'.path = call.path
    /\ result'.kind = "ok"

\* C10 as stated: the node count of inspect_scene's output is scene_stats'
\* prim_count less one for the implicit root.
C10_WalkerCountLessRoot ==
    [][ StatsAfterInspect
        => NodeCount(result.payload.scene) = result'.payload.prim_count - 1 ]_vars

\* C10 amended: the node count of inspect_scene's output is scene_stats'
\* prim_count, which does not count the implicit root.
C10_WalkerCount ==
    [][ StatsAfterInspect
        => NodeCount(result.payload.scene) = result'.payload.prim_count ]_vars

\* scene_stats counted a document of nested prims, some of them pruned
C10_Witness ==
    /\ call.op = "scene_stats"
    /\ result.kind = "ok"
    /\ result.payload.prim_count >= 2
    /\ result.payload.prim_count < Len(fs[call.path].doc.prims)
    /\ \E i \in 1..Len(fs[call.path].doc.prims) :
        /\ fs[call.path].doc.prims[i].parent # "/"
        /\ ChainActive(fs[call.path].doc, fs[call.path].doc.prims[i].path)

(***************************************************************************)
(* Materials: claim C11 (checked under Spec)                               *)
(***************************************************************************)

\* the inputs of the shader at shader_path that hold a value, as the
\* parameter set names them: <<base name, formatted value>>
SetInputs(stage, shader_path) ==
    LET held == SelectSeq(Record(stage, shader_path).inputs,
                          LAMBDA inp : inp.value.set)
    IN  [i \in 1..Len(held) |-> <<held[i].base, Str(held[i].value.val)>>]

\* C11: get_materials reports one entry for every Material-typed node; the
\* entry of a material whose surface output has no connected shader carries
\* a parameter set that is present and empty, and the entry of a material
\* with a connected shader carries exactly the shader's set inputs.
C11_MaterialParams ==
    (call.op = "get_materials" /\ result.kind = "ok")
    => LET stage == fs[call.path].doc
           mats  == SelectSeq(stage.prims, IsMaterial)
           out   == result.payload.materials
       IN  /\ Len(out) = Len(mats)
           /\ \A i \in 1..Len(mats) :
                /\ out[i].path = Str(mats[i].path)
                /\ "params" \in DOMAIN out[i]
                /\ out[i].params =
                       IF Len(mats[i].surface) = 0 THEN <<>>
                       ELSE SetInputs(stage, mats[i].surface[1])

(***************************************************************************)
(* Document immutability: claim C12 (checked under Spec)                   *)
(***************************************************************************)

\* C12: every operation other than set_variant leaves the file at the
\* document's storage path as it was, whatever its inputs, the output
\* destination of export_mesh included.
C12_DocumentImmutable ==
    [][ call'.op # "set_variant" => fs'[call'.path] = fs[call'.path] ]_vars

(***************************************************************************)
(* Reported format: claim C14 (checked under Spec)                         *)
(***************************************************************************)

\* the layout of the file a successful export_mesh left at its output
LayoutWritten == fs[call.output].kind

\* C14: for every successful export_mesh and every value of fmt, the
\* "format" field of the result names the layout written: it is "obj"
\* exactly when the text vertex/face layout was written, and it is "stl"
\* exactly when the binary layout with the 80-byte header was written.
C14_FormatNamesLayout ==
    ExportSucceeded
    => /\ (result.payload.format = "obj") <=> (LayoutWritten = "obj")
       /\ (result.payload.format = "stl") <=> (LayoutWritten = "stl")

(***************************************************************************)
(* Calls served at once: the specification SpecConc                        *)
(*                                                                         *)
(* A handler runs to its return inside one server process, so calls        *)
(* overlap only across processes started on the same storage.  Each        *)
(* process composes its own stage from the file it reads; what a call      *)
(* authors on its stage is in that process's memory and nowhere else.      *)
(* A call is taken in the steps in which it touches the file system or     *)
(* its stage: _open_stage, the handler's work on the stage, the return.    *)
(***************************************************************************)

\* the set_variant calls the clients make: <<variant_set, variant>> on /Product
ConcSelections == {<<"size", "small">>, <<"size", "large">>, <<"color", "blue">>}

ConcPaths == {"scene.usda", "missing.usda"}

InitConc ==
    /\ fs \in {Files(ProductDocument(size, "red", QuadTriGeometry)) :
                    size \in Selections(SizeOptions)}
    /\ call = NoCall
    /\ result = [kind |-> "none"]
    /\ procs = AllIdle

\* the place of the next return among the returns made so far
Stamp == 1 + Cardinality({q \in Procs : procs[q].pc = "done"})

\* the call of process p is over: its stage is dropped, its result is out
Finished(p, c, res) ==
    /\ procs' = [procs EXCEPT ![p] = [pc |-> "done", call |-> c,
                                      result |-> res, stamp |-> Stamp]]
    /\ call' = c
    /\ result' = res

\* the file system as the call of process p has it: the document is the
\* stage the call holds
View(p) == [fs EXCEPT ![procs[p].call.path] = UsdFile(procs[p].stage)]

\* what a handler run on `view` saved: the files that differ from the view
\* are written, the others are as other processes left them
Written(view, files) ==
    [q \in Paths |-> IF files[q] # view[q] THEN files[q] ELSE fs[q]]

\* stage = _open_stage(path) in process p, serving call c
OpenStage(p, c) ==
    /\ procs[p].pc = "idle"
    /\ LET o == _open_stage(fs, c.path) IN
       IF o.raised
       THEN /\ Finished(p, c, Raise(o.exc))
            /\ UNCHANGED fs
       ELSE /\ procs' = [procs EXCEPT ![p] = [pc |-> "opened", call |-> c,
                                              stage |-> o.stage]]
            /\ UNCHANGED <<fs, call, result>>

ConcSetVariant(p, path, variant_set, variant) ==
    OpenStage(p, Call("set_variant", path, "/Product", variant_set, variant, "", ""))

ConcListVariants(p, path) ==
    OpenStage(p, Call("list_variants", path, "", "", "", "", ""))

\* set_variant past _open_stage: the three checks, then SetVariantSelection
\* on the stage the call holds
ConcSelect(p) ==
    /\ procs[p].pc = "opened"
    /\ procs[p].call.op = "set_variant"
    /\ LET c   == procs[p].call
           out == set_variant(View(p), c.path, c.prim_path, c.variant_set, c.variant)
       IN  /\ fs' = Written(View(p), out.files)
           /\ IF out.res.kind = "ok"
              THEN /\ procs' = [procs EXCEPT ![p] = [pc |-> "selected", call |-> c,
                                                     stage |-> out.stage,
                                                     result |-> out.res]]
                   /\ UNCHANGED <<call, result>>
              ELSE Finished(p, c, out.res)

\* set_variant's return of its success payload; the stage goes with the call
ConcReturn(p) ==
    /\ procs[p].pc = "selected"
    /\ Finished(p, procs[p].call, procs[p].result)
    /\ UNCHANGED fs

\* list_variants past _open_stage: the traversal of the stage the call holds,
\* and the return
ConcList(p) ==
    /\ procs[p].pc = "opened"
    /\ procs[p].call.op = "list_variants"
    /\ LET out == list_variants(View(p), procs[p].call.path)
       IN  /\ fs' = Written(View(p), out.files)
           /\ Finished(p, procs[p].call, out.res)

NextConc ==
    \/ \E p \in Procs, path \in ConcPaths, s \in ConcSelections :
            ConcSetVariant(p, path, s[1], s[2])
    \/ \E p \in Procs, path \in ConcPaths : ConcListVariants(p, path)
    \/ \E p \in Procs : ConcSelect(p)
    \/ \E p \in Procs : ConcReturn(p)
    \/ \E p \in Procs : ConcList(p)

SpecConc == InitConc /\ [][NextConc]_vars

(***************************************************************************)
(* Concurrent selection: claim C13 (checked under SpecConc)                *)
(***************************************************************************)

\* the processes whose set_variant has returned its success payload
CommittedSelects ==
    {p \in Procs : /\ procs[p].pc = "done"
                   /\ procs[p].call.op = "set_variant"
                   /\ procs[p].result.kind = "ok"}

\* two calls are about the same variant set of the same document
SameSet(c, d) ==
    /\ c.path = d.path
    /\ c.prim_path = d.prim_path
    /\ c.variant_set = d.variant_set

\* q committed after p to the same set, and nothing committed to it after q
CommittedLast(p, q) ==
    /\ p # q
    /\ SameSet(procs[p].call, procs[q].call)
    /\ procs[p].stamp < procs[q].stamp
    /\ \A r \in CommittedSelects :
        SameSet(procs[r].call, procs[q].call) => procs[r].stamp <= procs[q].stamp

\* the selections of set (prim_path, variant_set) that a list_variants of
\* process l may report: what the document persisted when l opened it, or
\* the target of a set_variant made on that set
PreOrPost(l, prim_path, variant_set) ==
    {GetVariantSet(GetPrimAtPath(procs[l].stage, prim_path), variant_set).selected}
    \cup {procs[p].call.variant :
            p \in {q \in Procs : /\ procs[q].pc # "idle"
                                 /\ procs[q].call.op = "set_variant"
                                 /\ procs[q].call.prim_path = prim_path
                                 /\ procs[q].call.variant_set = variant_set}}

\* C13: once two set_variant calls on the same variant set have both
\* returned success, the selection the document persists for the set is the
\* target of the one that committed last; and a list_variants running beside
\* them reports for a set its selection from before or from after a
\* set_variant, never another value.
C13_LastWriterWins ==
    /\ \A p, q \in CommittedSelects :
        CommittedLast(p, q)
        => Selected(fs, procs[q].call.path, procs[q].call.prim_path,
                    procs[q].call.variant_set) = procs[q].call.variant
    /\ \A l \in Procs :
        (/\ procs[l].pc = "opened"
         /\ procs[l].call.op = "list_variants")
        => LET vs == list_variants(View(l), procs[l].call.path).res.payload.variants
           IN  \A i \in 1..Len(vs) : \A j \in 1..Len(vs[i].variant_sets) :
                  \E prim_path \in PrimPaths :
                      /\ vs[i].path = Str(prim_path)
                      /\ vs[i].variant_sets[j].selected
                            \in PreOrPost(l, prim_path, vs[i].variant_sets[j].name)

====
